---- MODULE Spec2Model ----
(***************************************************************************)
(* Entry store of the image knowledge base (components/db.py): the         *)
(* entries table, the upload directory and the operations insert_data,     *)
(* update_entry, delete_entry, get_entry_by_id, get_entries,               *)
(* search_entries, get_all_categories and get_all_tags.                    *)
(*                                                                         *)
(* Text is a sequence of one-character strings, so that splitting,         *)
(* joining and pattern matching are computed character by character.  A    *)
(* nullable column or argument holds Null (the empty tuple) or Some(v)     *)
(* (the one-element tuple); a NULL text column and the empty text are both *)
(* the empty sequence.                                                     *)
(***************************************************************************)
EXTENDS Integers, Sequences, FiniteSets, TLC

\* ---------------------------------------------------------------- bounds
MaxEntries == 2      \* rows ever inserted (AUTOINCREMENT ids 1..MaxEntries)
MaxTime == 2         \* last clock tick
TicksPerSec == 2     \* clock ticks per wall-clock second
MaxLen == 3          \* longest file name uploaded in SpecCreate
MaxLabels == 2       \* longest label list passed in SpecCreate

\* ---------------------------------------------------------------- values
Null == <<>>
Some(v) == <<v>>

\* the users table after registration: username -> id (ids are AUTOINCREMENT)
RegisteredUsers == [alice |-> 1, bob |-> 2]

Usernames == {"alice", "bob", "ghost"}

\* owner ids a caller passes; 0 stands for the default user_id=None
OwnerIds == 0 .. 2

\* Python truthiness of the user_id argument ("if user_id:")
Truthy(user_id) == user_id # 0

EntryIds == 1 .. MaxEntries

\* ---------------------------------------------------------------- text
DOT == "."

\* index of the last occurrence of ch in s, 0 when there is none
RECURSIVE LastIndexOf(_, _, _)
LastIndexOf(s, ch, i) ==
    IF i = 0 THEN 0
    ELSE IF s[i] = ch THEN i
    ELSE LastIndexOf(s, ch, i - 1)

\* index of the first occurrence of ch in s at or after i, 0 when none
RECURSIVE FirstIndexOf(_, _, _)
FirstIndexOf(s, ch, i) ==
    IF i > Len(s) THEN 0
    ELSE IF s[i] = ch THEN i
    ELSE FirstIndexOf(s, ch, i + 1)

\* filename.split('.', 1)[0]: the text before the FIRST dot
SplitDotHead(filename) ==
    LET i == FirstIndexOf(filename, DOT, 1)
    IN  IF i = 0 THEN filename ELSE SubSeq(filename, 1, i - 1)

\* filename.rsplit('.', 1)[0]: the text before the LAST dot
RsplitDotHead(filename) ==
    LET i == LastIndexOf(filename, DOT, Len(filename))
    IN  IF i = 0 THEN filename ELSE SubSeq(filename, 1, i - 1)

\* ','.join(parts)
RECURSIVE JoinComma(_)
JoinComma(parts) ==
    IF parts = <<>> THEN <<>>
    ELSE IF Len(parts) = 1 THEN parts[1]
    ELSE parts[1] \o <<",">> \o JoinComma(Tail(parts))

\* ', '.join(parts)
RECURSIVE JoinCommaSpace(_)
JoinCommaSpace(parts) ==
    IF parts = <<>> THEN <<>>
    ELSE IF Len(parts) = 1 THEN parts[1]
    ELSE parts[1] \o <<",", " ">> \o JoinCommaSpace(Tail(parts))

Untitled == <<"U", "n", "t", "i", "t", "l", "e", "d">>

\* ---------------------------------------------------------------- inputs
\* an uploaded file object; present = FALSE is image_file=None
NoFile == [present |-> FALSE, name |-> <<>>, size |-> 0, dims |-> Null]

UploadedFile(name, dims) == [present |-> TRUE, name |-> name, size |-> 1, dims |-> dims]

\* a categories/tags argument: a Python list of labels, or text
AsList(items) == [kind |-> "list", items |-> items, text |-> <<>>]

AsText(text) == [kind |-> "text", items |-> <<>>, text |-> text]

\* ---------------------------------------------------------------- state
VARIABLES
    entries,   \* the entries table: id -> row
    nextId,    \* next AUTOINCREMENT id of the entries table
    files,     \* paths present in the upload directory
    now,       \* the clock, in ticks
    last       \* the last call: its arguments and what it returned

vars == <<entries, nextId, files, now, last>>

\* ---------------------------------------------------------------- clock
\* datetime.now().strftime('%Y%m%d_%H%M%S'): the clock cut to whole seconds
StampSeconds(t) == t \div TicksPerSec

\* SQLite CURRENT_TIMESTAMP: whole seconds
SqlTimestamp(t) == [fmt |-> "sqlite", t |-> t \div TicksPerSec]

\* datetime.now().isoformat(): full clock resolution
IsoTimestamp(t) == [fmt |-> "iso", t |-> t]

\* ---------------------------------------------------------------- insert_data
\* os.path.join("uploads", f"{user_id}_{stamp}_{filename}")
UploadPath(user_id, t, filename) ==
    [dir |-> "uploads", owner |-> user_id, stamp |-> StampSeconds(t), name |-> filename]

\* DefaultTitle cutting at the first dot (split instead of rsplit)
DefaultTitleFirstDot(title, filename) ==
    IF title = <<>>
    THEN IF filename # <<>> THEN SplitDotHead(filename) ELSE Untitled
    ELSE title

\* the title given to the row
DefaultTitle(title, filename) ==
    IF title = <<>>
    THEN IF filename # <<>> THEN RsplitDotHead(filename) ELSE Untitled
    ELSE title

\* LabelsText joining with a bare comma
LabelsTextBareComma(v) == IF v.kind = "list" THEN JoinComma(v.items) ELSE v.text

\* categories / tags as stored
LabelsText(v) == IF v.kind = "list" THEN JoinCommaSpace(v.items) ELSE v.text

\* get_user_by_username falling back to the first user
LookupUserOrFirst(username) ==
    IF username \in DOMAIN RegisteredUsers
    THEN Some(RegisteredUsers[username])
    ELSE Some(1)

\* get_user_by_username(username): the user's row (its id), or None
LookupUser(username) ==
    IF username \in DOMAIN RegisteredUsers
    THEN Some(RegisteredUsers[username])
    ELSE Null

NoCall ==
    [op |-> "none", ret |-> FALSE, msg |-> "", raised |-> FALSE, fault |-> "none",
     username |-> "", file |-> NoFile, title |-> <<>>,
     categories |-> AsText(<<>>), tags |-> AsText(<<>>),
     entry_id |-> 0, user_id |-> 0, patch |-> <<>>, rm_fails |-> FALSE,
     row |-> Null,
     limit |-> Null, search_query |-> <<>>, category |-> <<>>, tag |-> <<>>,
     favorites_only |-> FALSE, exclude_archived |-> FALSE, axis |-> "",
     rows |-> <<>>, labels |-> <<>>,
     kwargs |-> <<>>,
     variant |-> "", field |-> "", entry |-> <<>>, result |-> Null,
     configured |-> FALSE, reply |-> <<>>, analysis |-> Null]

\* where the persistence layer may raise inside insert_data's try
InsertFaults == {"none", "connect", "insert", "commit"}

\* the row of the INSERT statement (the three timestamps default to
\* CURRENT_TIMESTAMP)
NewRow(id, t, user_id, username, image_file, description, link, summary, categories, title, tags, notes, is_favorite) ==
    LET filename == IF image_file.present THEN image_file.name ELSE <<>>
    IN  [id |-> id,
         user_id |-> user_id,
         username |-> username,
         title |-> DefaultTitle(title, filename),
         filename |-> filename,
         description |-> description,
         image_caption |-> summary,
         link |-> link,
         link_summary |-> <<>>,
         categories |-> LabelsText(categories),
         tags |-> LabelsText(tags),
         file_path |-> IF image_file.present
                       THEN Some(UploadPath(user_id, t, filename)) ELSE Null,
         file_size |-> IF image_file.present THEN Some(image_file.size) ELSE Null,
         image_width |-> IF image_file.present /\ image_file.dims # Null
                         THEN Some(image_file.dims[1][1]) ELSE Null,
         image_height |-> IF image_file.present /\ image_file.dims # Null
                          THEN Some(image_file.dims[1][2]) ELSE Null,
         notes |-> notes,
         is_favorite |-> Some(is_favorite),
         is_archived |-> Some(FALSE),
         created_at |-> SqlTimestamp(t),
         updated_at |-> SqlTimestamp(t),
         uploaded_at |-> SqlTimestamp(t)]

InsertData(username, image_file, description, link, summary, categories, title, tags, notes, is_favorite, fault) ==
    LET call == [NoCall EXCEPT !.op = "create", !.username = username,
                               !.file = image_file, !.title = title,
                               !.categories = categories, !.tags = tags,
                               !.fault = fault]
        failed(m) == [call EXCEPT !.ret = FALSE, !.msg = m]
        user == LookupUser(username)
        user_id == user[1]
        filename == IF image_file.present THEN image_file.name ELSE <<>>
        file_path == UploadPath(user_id, now, filename)
        row == NewRow(nextId, now, user_id, username, image_file, description,
                      link, summary, categories, title, tags, notes, is_favorite)
    IN  /\ nextId <= MaxEntries
        \* the INSERT and the commit are reached only for a known user
        /\ fault \in {"insert", "commit"} => user # Null
        /\ UNCHANGED now
        /\ IF fault = "connect"
           THEN /\ last' = failed("Error saving entry")
                /\ UNCHANGED <<entries, nextId, files>>
           ELSE IF user = Null
           THEN /\ last' = failed("User not found")
                /\ UNCHANGED <<entries, nextId, files>>
           ELSE /\ files' = IF image_file.present THEN files \cup {file_path} ELSE files
                /\ IF fault \in {"insert", "commit"}
                   THEN /\ last' = failed("Error saving entry")
                        /\ UNCHANGED <<entries, nextId>>
                   ELSE /\ entries' = [i \in DOMAIN entries \cup {nextId} |->
                                          IF i = nextId THEN row ELSE entries[i]]
                        /\ nextId' = nextId + 1
                        /\ last' = [call EXCEPT !.ret = TRUE,
                                                !.msg = "Entry saved successfully"]

\* ---------------------------------------------------------------- update_entry
\* UpdateSelect without the "AND user_id = ?" clause
UpdateSelectAnyOwner(tbl, entry_id, user_id) == {i \in DOMAIN tbl : i = entry_id}

\* SELECT id FROM entries WHERE id = ? [AND user_id = ?]
UpdateSelect(tbl, entry_id, user_id) ==
    IF Truthy(user_id)
    THEN {i \in DOMAIN tbl : i = entry_id /\ tbl[i].user_id = user_id}
    ELSE {i \in DOMAIN tbl : i = entry_id}

\* allowed_fields with the owner column let through
allowed_fields_and_owner ==
    {"title", "description", "image_caption", "link", "link_summary",
     "categories", "tags", "notes", "is_favorite", "is_archived", "user_id"}

allowed_fields ==
    {"title", "description", "image_caption", "link", "link_summary",
     "categories", "tags", "notes", "is_favorite", "is_archived"}

\* the columns named in the SET clause
UpdateFields(update_data) == DOMAIN update_data \cap allowed_fields

\* UpdateRow without "updated_at = ?"
UpdateRowStaleTimestamp(row, update_data, t) ==
    [f \in DOMAIN row |->
        IF f \in UpdateFields(update_data) THEN update_data[f] ELSE row[f]]

\* UpdateRow stamping uploaded_at as well
UpdateRowTouchingUploaded(row, update_data, t) ==
    [f \in DOMAIN row |->
        IF f \in UpdateFields(update_data) THEN update_data[f]
        ELSE IF f \in {"updated_at", "uploaded_at"} THEN IsoTimestamp(t)
        ELSE row[f]]

\* UPDATE entries SET <update_fields>, updated_at = ? WHERE id = ?
UpdateRow(row, update_data, t) ==
    [f \in DOMAIN row |->
        IF f \in UpdateFields(update_data) THEN update_data[f]
        ELSE IF f = "updated_at" THEN IsoTimestamp(t)
        ELSE row[f]]

\* where the persistence layer may raise inside update_entry's try
UpdateFaults == {"none", "commit"}

UpdateEntry(entry_id, update_data, user_id, fault) ==
    LET call == [NoCall EXCEPT !.op = "update", !.entry_id = entry_id,
                               !.patch = update_data, !.user_id = user_id,
                               !.fault = fault]
    IN  /\ UNCHANGED <<nextId, files, now>>
        \* the commit is reached only after the UPDATE was issued
        /\ fault = "commit" => /\ UpdateSelect(entries, entry_id, user_id) # {}
                               /\ UpdateFields(update_data) # {}
        /\ IF UpdateSelect(entries, entry_id, user_id) = {}
           THEN /\ last' = [call EXCEPT !.ret = FALSE]
                /\ UNCHANGED entries
           ELSE IF UpdateFields(update_data) = {}
           THEN /\ last' = [call EXCEPT !.ret = FALSE]
                /\ UNCHANGED entries
           ELSE IF fault = "commit"
           THEN \* the uncommitted UPDATE is rolled back with the connection
                /\ last' = [call EXCEPT !.ret = FALSE]
                /\ UNCHANGED entries
           ELSE /\ entries' = [entries EXCEPT
                                  ![entry_id] = UpdateRow(@, update_data, now)]
                /\ last' = [call EXCEPT !.ret = TRUE]

\* ---------------------------------------------------------------- delete_entry
\* DeleteSelect without the "AND user_id = ?" clause
DeleteSelectAnyOwner(tbl, entry_id, user_id) == {i \in DOMAIN tbl : i = entry_id}

\* SELECT file_path FROM entries WHERE id = ? [AND user_id = ?]
DeleteSelect(tbl, entry_id, user_id) ==
    IF Truthy(user_id)
    THEN {i \in DOMAIN tbl : i = entry_id /\ tbl[i].user_id = user_id}
    ELSE {i \in DOMAIN tbl : i = entry_id}

\* DELETE FROM entries WHERE id = ? [AND user_id = ?]
DeleteRows(tbl, entry_id, user_id) ==
    LET gone == IF Truthy(user_id)
                THEN {i \in DOMAIN tbl : i = entry_id /\ tbl[i].user_id = user_id}
                ELSE {i \in DOMAIN tbl : i = entry_id}
    IN  [i \in DOMAIN tbl \ gone |-> tbl[i]]

\* if file_path and os.path.exists(file_path): try os.remove ... except: pass
RemoveFile(fs, file_path, rm_fails) ==
    IF file_path # Null /\ file_path[1] \in fs /\ ~rm_fails
    THEN fs \ {file_path[1]}
    ELSE fs

\* os.remove raising past the bare "except: pass"
RemoveRaisesUncaught(fs, file_path, rm_fails) ==
    file_path # Null /\ file_path[1] \in fs /\ rm_fails

\* whether the file-removal step raises out of delete_entry's inner try
RemoveRaises(fs, file_path, rm_fails) == FALSE

\* where the persistence layer may raise inside delete_entry's try
DeleteFaults == {"none", "commit"}

DeleteEntry(entry_id, user_id, rm_fails, fault) ==
    LET call == [NoCall EXCEPT !.op = "delete", !.entry_id = entry_id,
                               !.user_id = user_id, !.rm_fails = rm_fails,
                               !.fault = fault]
        file_path == entries[entry_id].file_path
        found == [call EXCEPT !.row = Some(entries[entry_id])]
    IN  /\ UNCHANGED <<nextId, now>>
        \* the commit is reached only after the DELETE was issued, and
        \* os.remove can fail only when it is called
        /\ fault = "commit" => DeleteSelect(entries, entry_id, user_id) # {}
        /\ rm_fails => /\ DeleteSelect(entries, entry_id, user_id) # {}
                       /\ file_path # Null
                       /\ file_path[1] \in files
        /\ IF DeleteSelect(entries, entry_id, user_id) = {}
           THEN /\ last' = [call EXCEPT !.ret = FALSE]
                /\ UNCHANGED <<entries, files>>
           ELSE /\ files' = RemoveFile(files, file_path, rm_fails)
                /\ IF fault = "commit" \/ RemoveRaises(files, file_path, rm_fails)
                   THEN \* the uncommitted DELETE is rolled back with the connection
                        /\ last' = [found EXCEPT !.ret = FALSE]
                        /\ UNCHANGED entries
                   ELSE /\ entries' = DeleteRows(entries, entry_id, user_id)
                        /\ last' = [found EXCEPT !.ret = TRUE]

\* ---------------------------------------------------------------- get_entry_by_id
\* GetSelect without the "AND user_id = ?" clause
GetSelectAnyOwner(tbl, entry_id, user_id) == {i \in DOMAIN tbl : i = entry_id}

\* SELECT ... FROM entries WHERE id = ? [AND user_id = ?]; fetchone()
GetSelect(tbl, entry_id, user_id) ==
    IF Truthy(user_id)
    THEN {i \in DOMAIN tbl : i = entry_id /\ tbl[i].user_id = user_id}
    ELSE {i \in DOMAIN tbl : i = entry_id}

\* where the persistence layer may raise inside get_entry_by_id (no try)
GetFaults == {"none", "connect"}

GetEntryById(entry_id, user_id, fault) ==
    LET call == [NoCall EXCEPT !.op = "get", !.entry_id = entry_id,
                               !.user_id = user_id, !.fault = fault]
        hit == GetSelect(entries, entry_id, user_id)
    IN  /\ UNCHANGED <<entries, nextId, files, now>>
        /\ IF fault = "connect"
           THEN last' = [call EXCEPT !.raised = TRUE]
           ELSE IF hit = {}
           THEN last' = [call EXCEPT !.ret = FALSE, !.row = Null]
           ELSE last' = [call EXCEPT !.ret = TRUE,
                                     !.row = Some(entries[CHOOSE i \in hit : TRUE])]

\* ---------------------------------------------------------------- get_entries
\* WHERE username = ? when a username is given, else WHERE user_id = ? when
\* a user id is given, else every row ("" stands for username=None)
ListWhere(tbl, username, user_id) ==
    IF username # ""
    THEN {i \in DOMAIN tbl : tbl[i].username = username}
    ELSE IF Truthy(user_id)
    THEN {i \in DOMAIN tbl : tbl[i].user_id = user_id}
    ELSE DOMAIN tbl

\* row i comes before row j under ORDER BY uploaded_at DESC; rows of the
\* same second stay in the order of the table scan (ascending rowid)
ComesBefore(tbl, i, j) ==
    \/ tbl[i].uploaded_at.t > tbl[j].uploaded_at.t
    \/ tbl[i].uploaded_at.t = tbl[j].uploaded_at.t /\ i <= j

\* ORDER BY uploaded_at DESC over the selected ids
RECURSIVE OrderByUploadedAtDesc(_, _)
OrderByUploadedAtDesc(tbl, ids) ==
    IF ids = {} THEN <<>>
    ELSE LET first == CHOOSE i \in ids : \A j \in ids : ComesBefore(tbl, i, j)
         IN  <<first>> \o OrderByUploadedAtDesc(tbl, ids \ {first})

\* if limit: query += ' LIMIT ?'  (limit is None, or Some(n))
ApplyLimit(ids, limit) ==
    IF limit # Null /\ limit[1] # 0
    THEN SubSeq(ids, 1, IF limit[1] < Len(ids) THEN limit[1] ELSE Len(ids))
    ELSE ids

\* fetchall(): the selected rows, in order
FetchAll(tbl, ids) == [k \in 1 .. Len(ids) |-> tbl[ids[k]]]

\* the rows get_entries returns
ListRows(tbl, username, user_id, limit) ==
    FetchAll(tbl, ApplyLimit(OrderByUploadedAtDesc(tbl, ListWhere(tbl, username, user_id)), limit))

\* where the persistence layer may raise inside get_entries (no try)
ListFaults == {"none", "execute"}

GetEntries(username, user_id, limit, fault) ==
    LET call == [NoCall EXCEPT !.op = "list", !.username = username,
                               !.user_id = user_id, !.limit = limit,
                               !.fault = fault]
    IN  /\ UNCHANGED <<entries, nextId, files, now>>
        /\ IF fault = "execute"
           THEN last' = [call EXCEPT !.raised = TRUE]
           ELSE last' = [call EXCEPT !.rows = ListRows(entries, username, user_id, limit)]

\* ---------------------------------------------------------------- search_entries
\* SQLite folds the case of ASCII letters when it compares under LIKE
Lower(c) ==
    CASE c = "A" -> "a"
      [] c = "B" -> "b"
      [] c = "C" -> "c"
      [] OTHER -> c

\* text s from position j on matches pattern p from position i on: "%" stands
\* for any run of characters, "_" for any one character
RECURSIVE LikeFrom(_, _, _, _)
LikeFrom(p, i, s, j) ==
    IF i > Len(p) THEN j > Len(s)
    ELSE IF p[i] = "%"
    THEN LikeFrom(p, i + 1, s, j) \/ (j <= Len(s) /\ LikeFrom(p, i, s, j + 1))
    ELSE IF j > Len(s) THEN FALSE
    ELSE IF p[i] = "_" \/ Lower(p[i]) = Lower(s[j])
    THEN LikeFrom(p, i + 1, s, j + 1)
    ELSE FALSE

\* column LIKE ? bound to f"%{needle}%"
LikeContains(column, needle) == LikeFrom(<<"%">> \o needle \o <<"%">>, 1, column, 1)

\* the six columns the search text is matched against
SearchedColumns == {"title", "description", "image_caption", "filename", "tags", "notes"}

\* title LIKE ? OR description LIKE ? OR ... OR notes LIKE ?
QueryMatches(row, search_query) ==
    \E col \in SearchedColumns : LikeContains(row[col], search_query)

\* NotArchived without "OR is_archived IS NULL"
NotArchivedStrict(row) == row.is_archived = Some(FALSE)

\* (is_archived = 0 OR is_archived IS NULL)
NotArchived(row) == row.is_archived = Some(FALSE) \/ row.is_archived = Null

\* is_favorite = 1
IsFavorite(row) == row.is_favorite = Some(TRUE)

\* SearchWhere with the supplied filters joined by OR
SearchWhereAnyFilter(row, username, search_query, category, tag, favorites_only, exclude_archived) ==
    /\ row.username = username
    /\ \/ search_query = <<>> /\ category = <<>> /\ tag = <<>>
             /\ ~favorites_only /\ ~exclude_archived
       \/ search_query # <<>> /\ QueryMatches(row, search_query)
       \/ category # <<>> /\ LikeContains(row.categories, category)
       \/ tag # <<>> /\ LikeContains(row.tags, tag)
       \/ favorites_only /\ IsFavorite(row)
       \/ exclude_archived /\ NotArchived(row)

\* SearchWhere without "WHERE username = ?"
SearchWhereAnyUser(row, username, search_query, category, tag, favorites_only, exclude_archived) ==
    /\ search_query # <<>> => QueryMatches(row, search_query)
    /\ category # <<>> => LikeContains(row.categories, category)
    /\ tag # <<>> => LikeContains(row.tags, tag)
    /\ favorites_only => IsFavorite(row)
    /\ exclude_archived => NotArchived(row)

\* the WHERE clause search_entries builds: a filter adds its condition only
\* when its argument is truthy
SearchWhere(row, username, search_query, category, tag, favorites_only, exclude_archived) ==
    /\ row.username = username
    /\ search_query # <<>> => QueryMatches(row, search_query)
    /\ category # <<>> => LikeContains(row.categories, category)
    /\ tag # <<>> => LikeContains(row.tags, tag)
    /\ favorites_only => IsFavorite(row)
    /\ exclude_archived => NotArchived(row)

\* the ids search_entries selects, in ORDER BY uploaded_at DESC
SearchIds(tbl, username, search_query, category, tag, favorites_only, exclude_archived) ==
    OrderByUploadedAtDesc(tbl, {i \in DOMAIN tbl : SearchWhere(tbl[i], username, search_query, category, tag, favorites_only, exclude_archived)})

\* the extra keyword arguments a caller may pass (**kwargs): none, a sort
\* request, a limit
NoKeywords == <<>>

SortKeywords == [sort_by |-> "title", sort_order |-> "asc"]

LimitKeywords == [limit |-> 6]

\* IgnoreKeywords honouring sort_order = "asc": oldest upload first
RECURSIVE ReverseIds(_)
ReverseIds(ids) ==
    IF ids = <<>> THEN <<>> ELSE Append(ReverseIds(Tail(ids)), Head(ids))

AscendingOnRequest(ids, kwargs) ==
    IF "sort_order" \in DOMAIN kwargs /\ kwargs.sort_order = "asc"
    THEN ReverseIds(ids)
    ELSE ids

\* **kwargs is accepted and never read: the selected ids stay as they are
IgnoreKeywords(ids, kwargs) == ids

\* a fault raising past search_entries' "except Exception"
SearchRaisesUncaught(fault) == fault # "none"

\* whether a fault inside search_entries' try raises out of it
SearchRaises(fault) == FALSE

\* where the persistence layer may raise inside search_entries' try
SearchFaults == {"none", "execute"}

SearchEntries(username, search_query, category, tag, favorites_only, exclude_archived, kwargs, fault) ==
    LET call == [NoCall EXCEPT !.op = "search", !.username = username,
                               !.search_query = search_query,
                               !.category = category, !.tag = tag,
                               !.favorites_only = favorites_only,
                               !.exclude_archived = exclude_archived,
                               !.kwargs = kwargs, !.fault = fault]
    IN  /\ UNCHANGED <<entries, nextId, files, now>>
        /\ IF fault # "none"
           THEN IF SearchRaises(fault)
                THEN last' = [call EXCEPT !.raised = TRUE]
                ELSE last' = [call EXCEPT !.rows = <<>>]
           ELSE last' = [call EXCEPT !.rows = FetchAll(entries, IgnoreKeywords(SearchIds(entries, username, search_query, category, tag, favorites_only, exclude_archived), kwargs))]

\* ---------------------------------------------------------------- get_all_categories, get_all_tags
\* text.split(','): the pieces between commas, from position i on, the piece
\* being read so far in piece
RECURSIVE SplitCommaFrom(_, _, _)
SplitCommaFrom(text, i, piece) ==
    IF i > Len(text) THEN <<piece>>
    ELSE IF text[i] = "," THEN <<piece>> \o SplitCommaFrom(text, i + 1, <<>>)
    ELSE SplitCommaFrom(text, i + 1, Append(piece, text[i]))

SplitComma(text) == SplitCommaFrom(text, 1, <<>>)

\* piece.lstrip()
RECURSIVE StripLeading(_)
StripLeading(piece) ==
    IF piece # <<>> /\ piece[1] = " " THEN StripLeading(Tail(piece)) ELSE piece

\* piece.rstrip()
RECURSIVE StripTrailing(_)
StripTrailing(piece) ==
    IF piece # <<>> /\ piece[Len(piece)] = " "
    THEN StripTrailing(SubSeq(piece, 1, Len(piece) - 1))
    ELSE piece

\* Strip trimming the left end only
StripLeadingOnly(piece) == StripLeading(piece)

\* piece.strip()
Strip(piece) == StripTrailing(StripLeading(piece))

\* code point of a character
Ord(c) ==
    CASE c = " " -> 32
      [] c = "," -> 44
      [] c = "A" -> 65
      [] c = "B" -> 66
      [] c = "C" -> 67
      [] c = "_" -> 95
      [] c = "a" -> 97
      [] c = "b" -> 98
      [] c = "c" -> 99
      [] c = "x" -> 120

\* s < t as Python compares str: by code point, a prefix first
RECURSIVE TextLess(_, _)
TextLess(s, t) ==
    IF t = <<>> THEN FALSE
    ELSE IF s = <<>> THEN TRUE
    ELSE IF s[1] = t[1] THEN TextLess(Tail(s), Tail(t))
    ELSE Ord(s[1]) < Ord(t[1])

\* sorted(list(labels))
RECURSIVE SortedTexts(_)
SortedTexts(labels) ==
    IF labels = {} THEN <<>>
    ELSE LET least == CHOOSE x \in labels : \A y \in labels \ {x} : TextLess(x, y)
         IN  <<least>> \o SortedTexts(labels \ {least})

\* the column each function reads
LabelAxes == {"categories", "tags"}

\* SELECT DISTINCT <axis> FROM entries WHERE username = ? AND <axis> IS NOT
\* NULL, then "if row[0]:" - the non-empty values of the column
LabelTexts(tbl, username, axis) ==
    {tbl[i][axis] : i \in {j \in DOMAIN tbl : tbl[j].username = username /\ tbl[j][axis] # <<>>}}

\* for cat in row[0].split(','): categories.add(cat.strip())
LabelSet(tbl, username, axis) ==
    UNION {{Strip(SplitComma(text)[k]) : k \in 1 .. Len(SplitComma(text))} : text \in LabelTexts(tbl, username, axis)}

\* where the persistence layer may raise inside get_all_categories /
\* get_all_tags (no try)
LabelFaults == {"none", "execute"}

GetAllLabels(username, axis, fault) ==
    LET call == [NoCall EXCEPT !.op = "labels", !.username = username,
                               !.axis = axis, !.fault = fault]
    IN  /\ UNCHANGED <<entries, nextId, files, now>>
        /\ IF fault = "execute"
           THEN last' = [call EXCEPT !.raised = TRUE]
           ELSE last' = [call EXCEPT !.labels = SortedTexts(LabelSet(entries, username, axis))]

\* ---------------------------------------------------------------- clock step
Tick ==
    /\ now < MaxTime
    /\ now' = now + 1
    /\ UNCHANGED <<entries, nextId, files, last>>

\* ---------------------------------------------------------------- specification
EmptyText == <<>>

Init ==
    /\ entries = [i \in {} |-> NoCall]
    /\ nextId = 1
    /\ files = {}
    /\ now = 0
    /\ last = NoCall

\* --- Spec: the life of entries and their files (insert_data, delete_entry)
PhotoName == <<"a", ".", "b">>

Photo == UploadedFile(PhotoName, Some(<<1, 1>>))

Create ==
    \E username \in Usernames, image_file \in {NoFile, Photo},
       fault \in InsertFaults :
        InsertData(username, image_file, EmptyText, EmptyText, EmptyText,
                   AsText(EmptyText), EmptyText, AsText(EmptyText), EmptyText,
                   FALSE, fault)

Delete ==
    \E entry_id \in EntryIds, user_id \in OwnerIds, rm_fails \in BOOLEAN,
       fault \in DeleteFaults :
        DeleteEntry(entry_id, user_id, rm_fails, fault)

Next ==
    \/ Create
    \/ Delete
    \/ Tick

Spec == Init /\ [][Next]_vars

\* --- SpecUpdate: update_entry on tables filled by insert_data
EmptyPatch == [k \in {} |-> TRUE]

Patches ==
    {EmptyPatch,
     [user_id |-> 2, file_path |-> Null],
     [is_favorite |-> Some(TRUE), user_id |-> 2],
     [is_archived |-> Some(TRUE), title |-> <<"n">>]}

\* the tables SpecUpdate starts from: who inserted row 1, row 2, ... (odd rows
\* with a photo), all at tick 0
Populations == {<<"alice", "bob">>, <<"bob", "bob">>, <<"alice">>}

Populated(owners) ==
    [i \in 1 .. Len(owners) |->
        NewRow(i, 0, RegisteredUsers[owners[i]], owners[i],
               IF i % 2 = 1 THEN Photo ELSE NoFile,
               EmptyText, EmptyText, EmptyText, AsText(EmptyText), EmptyText,
               AsText(EmptyText), EmptyText, FALSE)]

InitUpdate ==
    \E owners \in Populations :
        /\ entries = Populated(owners)
        /\ nextId = Len(owners) + 1
        /\ files = {Populated(owners)[i].file_path[1] :
                        i \in {j \in 1 .. Len(owners) : j % 2 = 1}}
        /\ now = 0
        /\ last = NoCall

Update ==
    \E entry_id \in EntryIds, update_data \in Patches, user_id \in OwnerIds,
       fault \in UpdateFaults :
        UpdateEntry(entry_id, update_data, user_id, fault)

NextUpdate ==
    \/ Update
    \/ Tick

SpecUpdate == InitUpdate /\ [][NextUpdate]_vars

\* --- SpecCreate: insert_data on a fresh store, read back by get_entry_by_id
Chars == {"a", DOT}

RECURSIVE Texts(_, _)
Texts(alphabet, n) ==
    IF n = 0 THEN {<<>>}
    ELSE LET shorter == Texts(alphabet, n - 1)
         IN  shorter \cup {Append(s, c) : s \in shorter, c \in alphabet}

FileNames == Texts(Chars, MaxLen) \ {<<>>}

CreateFiles ==
    {NoFile} \cup {UploadedFile(name, dims) :
                      name \in FileNames, dims \in {Null, Some(<<1, 1>>)}}

Labels == {<<"x">>, <<"y", "z">>}

LabelInputs ==
    {AsList(items) : items \in Texts(Labels, MaxLabels)}
        \cup {AsText(<<>>), AsText(<<"x", ",", "y">>)}

CreateFresh ==
    /\ DOMAIN entries = {}
    /\ \E username \in {"alice", "bob"}, image_file \in CreateFiles,
          categories \in LabelInputs, title \in {<<>>, <<"t", ".", "u">>},
          tags \in {AsText(<<>>), AsList(<<<<"p">>, <<"q">>>>)} :
           InsertData(username, image_file, EmptyText, EmptyText, EmptyText,
                      categories, title, tags, EmptyText, FALSE, "none")

GetById ==
    \E entry_id \in EntryIds, user_id \in OwnerIds, fault \in GetFaults :
        GetEntryById(entry_id, user_id, fault)

NextCreate ==
    \/ CreateFresh
    \/ GetById

SpecCreate == Init /\ [][NextCreate]_vars

\* --- SpecList: get_entries, and search_entries with no filter, on tables
\* filled by insert_data at different times
\* who inserted row 1, row 2, ... and at which tick (the clock never runs back)
ListPopulations ==
    UNION {{p \in [1 .. n -> [owner : {"alice", "bob"}, t : 0 .. MaxTime]] :
               \A i \in 1 .. n - 1 : p[i].t <= p[i + 1].t} : n \in 0 .. MaxEntries}

ListPopulated(p) ==
    [i \in 1 .. Len(p) |->
        NewRow(i, p[i].t, RegisteredUsers[p[i].owner], p[i].owner, NoFile,
               EmptyText, EmptyText, EmptyText, AsText(EmptyText), EmptyText,
               AsText(EmptyText), EmptyText, FALSE)]

InitList ==
    \E p \in ListPopulations :
        /\ entries = ListPopulated(p)
        /\ nextId = Len(p) + 1
        /\ files = {}
        /\ now = IF Len(p) = 0 THEN 0 ELSE p[Len(p)].t
        /\ last = NoCall

\* the limit argument: None, or a number
Limits == {Null} \cup {Some(n) : n \in 0 .. MaxEntries}

List ==
    \E username \in {"", "alice", "bob"}, user_id \in OwnerIds,
       limit \in Limits, fault \in ListFaults :
        GetEntries(username, user_id, limit, fault)

SearchAll ==
    \E username \in Usernames, fault \in SearchFaults :
        SearchEntries(username, EmptyText, EmptyText, EmptyText, FALSE, FALSE,
                      NoKeywords, fault)

NextList ==
    \/ List
    \/ SearchAll

SpecList == InitList /\ [][NextList]_vars

\* --- SpecSearch: search_entries, get_all_categories and get_all_tags on
\* tables of entries that differ in their text and their flags
BX == UploadedFile(<<"b", ".", "x">>, Null)

\* the entries a table is drawn from: the arguments of the insert_data call,
\* and the is_archived value a later update_entry left
Fixture(username, image_file, title, description, summary, categories, tags, notes, is_favorite, is_archived) ==
    [username |-> username, image_file |-> image_file, title |-> title,
     description |-> description, summary |-> summary,
     categories |-> categories, tags |-> tags, notes |-> notes,
     is_favorite |-> is_favorite, is_archived |-> is_archived]

SearchFixtures ==
    << Fixture("alice", NoFile, <<"b">>, <<>>, <<>>, AsText(<<>>), AsText(<<>>), <<>>, FALSE, Some(FALSE)),
       Fixture("alice", NoFile, <<"x">>, <<"a", "B">>, <<>>, AsList(<<<<"a", "b">>>>), AsText(<<>>), <<>>, TRUE, Some(TRUE)),
       Fixture("alice", NoFile, <<"x">>, <<>>, <<>>, AsList(<<<<"a">>, <<"b">>>>), AsText(<<>>), <<>>, FALSE, Null),
       Fixture("bob", NoFile, <<"b">>, <<>>, <<>>, AsList(<<<<"a", "b">>>>), AsText(<<"B", ",", ",", "a">>), <<>>, TRUE, Some(FALSE)),
       Fixture("alice", BX, <<"x">>, <<>>, <<>>, AsText(<<" ", "b", " ", ",", " ", "c">>), AsText(<<>>), <<>>, TRUE, Some(FALSE)),
       Fixture("alice", NoFile, <<"x">>, <<>>, <<"B">>, AsText(<<>>), AsText(<<>>), <<>>, FALSE, Some(FALSE)),
       Fixture("alice", NoFile, <<"x">>, <<>>, <<>>, AsText(<<>>), AsText(<<>>), <<"b">>, FALSE, Some(FALSE)),
       Fixture("alice", NoFile, <<"x">>, <<>>, <<>>, AsText(<<>>), AsList(<<<<"a">>, <<"b">>>>), <<>>, FALSE, Some(FALSE)) >>

\* which fixture row 1, row 2, ... is
SearchPopulations ==
    UNION {{p \in [1 .. n -> 1 .. Len(SearchFixtures)] :
               \A i \in 1 .. n - 1 : p[i] <= p[i + 1]} : n \in 0 .. MaxEntries}

\* row i is inserted a second after row i - 1, until the clock ends
InsertTick(i) ==
    IF (i - 1) * TicksPerSec < MaxTime THEN (i - 1) * TicksPerSec ELSE MaxTime

FixtureRow(i, f) ==
    LET row == NewRow(i, InsertTick(i), RegisteredUsers[f.username], f.username,
                      f.image_file, f.description, EmptyText, f.summary,
                      f.categories, f.title, f.tags, f.notes, f.is_favorite)
    IN  IF f.is_archived = Some(FALSE) THEN row
        ELSE UpdateRow(row, [is_archived |-> f.is_archived], InsertTick(i))

SearchPopulated(p) == [i \in 1 .. Len(p) |-> FixtureRow(i, SearchFixtures[p[i]])]

InitSearch ==
    \E p \in SearchPopulations :
        /\ entries = SearchPopulated(p)
        /\ nextId = Len(p) + 1
        /\ files = {SearchPopulated(p)[i].file_path[1] :
                        i \in {j \in 1 .. Len(p) : SearchPopulated(p)[j].file_path # Null}}
        /\ now = IF Len(p) = 0 THEN 0 ELSE InsertTick(Len(p))
        /\ last = NoCall

SearchQueries == {<<>>, <<"B">>, <<"_">>}

SearchCategories == {<<>>, <<"a">>}

SearchTags == {<<>>, <<"_">>}

Search ==
    \E username \in {"alice", "bob"}, search_query \in SearchQueries,
       category \in SearchCategories, tag \in SearchTags,
       favorites_only \in BOOLEAN, exclude_archived \in BOOLEAN :
        SearchEntries(username, search_query, category, tag, favorites_only,
                      exclude_archived, NoKeywords, "none")

SearchSorted ==
    \E username \in {"alice", "bob"}, search_query \in SearchQueries,
       kwargs \in {SortKeywords, LimitKeywords} :
        SearchEntries(username, search_query, EmptyText, EmptyText, FALSE, FALSE,
                      kwargs, "none")

ListLabels ==
    \E username \in {"alice", "bob"}, axis \in LabelAxes, fault \in LabelFaults :
        GetAllLabels(username, axis, fault)

NextSearch ==
    \/ Search
    \/ SearchSorted
    \/ ListLabels

SpecSearch == InitSearch /\ [][NextSearch]_vars

\* --- SpecOwner: insert_data, update_entry and delete_entry together, with
\* patches that name the owner columns
OwnerPatches ==
    {[user_id |-> 2, username |-> "bob"],
     [is_favorite |-> Some(TRUE), user_id |-> 2, username |-> "bob"]}

CreatePlain ==
    \E username \in Usernames :
        InsertData(username, NoFile, EmptyText, EmptyText, EmptyText,
                   AsText(EmptyText), EmptyText, AsText(EmptyText), EmptyText,
                   FALSE, "none")

UpdateOwner ==
    \E entry_id \in EntryIds, update_data \in OwnerPatches, user_id \in OwnerIds :
        UpdateEntry(entry_id, update_data, user_id, "none")

DeletePlain ==
    \E entry_id \in EntryIds, user_id \in OwnerIds :
        DeleteEntry(entry_id, user_id, FALSE, "none")

NextOwner ==
    \/ CreatePlain
    \/ UpdateOwner
    \/ DeletePlain
    \/ Tick

SpecOwner == Init /\ [][NextOwner]_vars

\* ------------------------------------------------- the UIs' get_entry_field
\* the column list of the SELECT of get_entries, get_entry_by_id and
\* search_entries: position i + 1 here is index i of a fetched tuple
SelectColumns ==
    << "id", "username", "filename", "description", "image_caption",
       "link", "link_summary", "categories", "uploaded_at", "user_id",
       "file_path", "file_size", "title", "tags", "image_width",
       "image_height", "notes", "is_favorite", "is_archived" >>

\* the tuple cursor.fetchall() gives for a row
AsTuple(row) == [i \in 1 .. Len(SelectColumns) |-> row[SelectColumns[i]]]

\* field_mapping of streamlit_app.py with categories and tags exchanged
MainFieldMappingLabelsSwapped ==
    [id |-> 0, username |-> 1, filename |-> 2, description |-> 3,
     image_caption |-> 4, link |-> 5, link_summary |-> 6, categories |-> 13,
     uploaded_at |-> 8, user_id |-> 9, file_path |-> 10, file_size |-> 11,
     title |-> 12, tags |-> 7, image_width |-> 14, image_height |-> 15,
     notes |-> 16, is_favorite |-> 17, is_archived |-> 18]

\* field_mapping of streamlit_app.py
MainFieldMapping ==
    [id |-> 0, username |-> 1, filename |-> 2, description |-> 3,
     image_caption |-> 4, link |-> 5, link_summary |-> 6, categories |-> 7,
     uploaded_at |-> 8, user_id |-> 9, file_path |-> 10, file_size |-> 11,
     title |-> 12, tags |-> 13, image_width |-> 14, image_height |-> 15,
     notes |-> 16, is_favorite |-> 17, is_archived |-> 18]

\* field_mapping of app.py
AppFieldMapping ==
    [id |-> 0, user_id |-> 1, username |-> 2, title |-> 3, filename |-> 4,
     description |-> 5, image_caption |-> 6, link |-> 7, link_summary |-> 8,
     categories |-> 9, tags |-> 10, file_path |-> 11, file_size |-> 12,
     image_width |-> 13, image_height |-> 14, notes |-> 15, is_favorite |-> 16,
     is_archived |-> 17, created_at |-> 18, updated_at |-> 19, uploaded_at |-> 20]

\* field_mapping of streamlit_app_enhanced.py
EnhancedFieldMapping ==
    [id |-> 0, username |-> 1, title |-> 2, filename |-> 3, description |-> 4,
     image_caption |-> 5, link |-> 6, link_summary |-> 7, categories |-> 8,
     tags |-> 9, file_path |-> 10, file_size |-> 11, image_width |-> 12,
     image_height |-> 13, notes |-> 14, is_favorite |-> 15, is_archived |-> 16,
     created_at |-> 17, updated_at |-> 18, uploaded_at |-> 19]

Variants == {"main", "app", "enhanced"}

FieldMapping(variant) ==
    CASE variant = "main" -> MainFieldMapping
      [] variant = "app" -> AppFieldMapping
      [] variant = "enhanced" -> EnhancedFieldMapping

\* get_entry_field refusing the last element of the record
GetEntryFieldShortByOne(field_mapping, entry, field_name) ==
    IF field_name \notin DOMAIN field_mapping THEN Null
    ELSE IF Len(entry) > field_mapping[field_name] + 1
         THEN Some(entry[field_mapping[field_name] + 1])
         ELSE Null

\* get_entry_field: Null is a None return that came from no element;
\* Some(v) is the element v (a NULL column is Some(Null))
GetEntryField(field_mapping, entry, field_name) ==
    IF field_name \notin DOMAIN field_mapping THEN Null
    ELSE IF Len(entry) > field_mapping[field_name]
         THEN Some(entry[field_mapping[field_name] + 1])
         ELSE Null

\* Python truth of a fetched value of the given column
ColumnTruthy(column, value) ==
    CASE column \in {"id", "user_id"} -> value # 0
      [] column = "username" -> value # ""
      [] column = "uploaded_at" -> TRUE
      [] column \in {"filename", "description", "image_caption", "link",
                     "link_summary", "categories", "title", "tags", "notes"}
            -> value # <<>>
      [] column = "file_path" -> value # Null
      [] column \in {"file_size", "image_width", "image_height"}
            -> value # Null /\ value[1] # 0
      [] column \in {"is_favorite", "is_archived"} -> value = Some(TRUE)

\* "if get_entry_field(entry, field_name)" on a fetched row
FieldIsTruthy(field_mapping, row, field_name) ==
    LET got == GetEntryField(field_mapping, AsTuple(row), field_name)
    IN  /\ got # Null
        /\ ColumnTruthy(SelectColumns[field_mapping[field_name] + 1], got[1])

\* the field names a caller asks for: every name of the three tables, and
\* one that is in none
FieldNames ==
    DOMAIN MainFieldMapping \cup DOMAIN AppFieldMapping
        \cup DOMAIN EnhancedFieldMapping \cup {"owner"}

\* record lengths handed to get_entry_field: a full fetched tuple, and
\* tuples cut short
RecordLengths == {0, 9, 18, Len(SelectColumns)}

\* what the UIs read from: one or two stored entries of SearchFixtures
UIPopulations == {<<3>>, <<7, 2>>, <<5, 4>>}

InitUI ==
    \E p \in UIPopulations :
        /\ entries = SearchPopulated(p)
        /\ nextId = Len(p) + 1
        /\ files = {SearchPopulated(p)[i].file_path[1] :
                        i \in {j \in 1 .. Len(p) : SearchPopulated(p)[j].file_path # Null}}
        /\ now = InsertTick(Len(p))
        /\ last = NoCall

\* a page reads the user's entries with get_entries(username=username) and
\* asks get_entry_field for one field of one of them
GetField ==
    \E variant \in Variants, username \in {"alice", "bob"},
       field_name \in FieldNames, length \in RecordLengths :
        \E i \in 1 .. Len(ListRows(entries, username, 0, Null)) :
            LET row == ListRows(entries, username, 0, Null)[i]
                entry == SubSeq(AsTuple(row), 1, length)
            IN  /\ last' = [NoCall EXCEPT !.op = "get_entry_field",
                                          !.variant = variant,
                                          !.username = username,
                                          !.row = Some(row),
                                          !.entry = entry,
                                          !.field = field_name,
                                          !.result = GetEntryField(FieldMapping(variant), entry, field_name)]
                /\ UNCHANGED <<entries, nextId, files, now>>

\* the Favorites page of streamlit_app.py and app.py:
\* [e for e in get_entries(username=username) if get_entry_field(e, 'is_favorite')]
ListFavorites ==
    \E variant \in {"main", "app"}, username \in {"alice", "bob"} :
        LET keep(row) == FieldIsTruthy(FieldMapping(variant), row, "is_favorite")
        IN  /\ last' = [NoCall EXCEPT !.op = "favorites",
                                      !.variant = variant,
                                      !.username = username,
                                      !.rows = SelectSeq(ListRows(entries, username, 0, Null), keep)]
            /\ UNCHANGED <<entries, nextId, files, now>>

NextUI ==
    \/ GetField
    \/ ListFavorites

SpecUI == InitUI /\ [][NextUI]_vars

\* ------------------------------------------------------ the image analysis
MinSentenceLen == 10      \* a sentence is meaningful above this stripped length
CaptionLimit == 100       \* characters kept of a caption
SummaryThreshold == 500   \* an analysis longer than this is summarised
MaxCategories == 5        \* categories kept by the classifier

UpperLetters ==
    << "A", "B", "C", "D", "E", "F", "G", "H", "I", "J", "K", "L", "M", "N",
       "O", "P", "Q", "R", "S", "T", "U", "V", "W", "X", "Y", "Z" >>

LowerLetters ==
    << "a", "b", "c", "d", "e", "f", "g", "h", "i", "j", "k", "l", "m", "n",
       "o", "p", "q", "r", "s", "t", "u", "v", "w", "x", "y", "z" >>

\* str.lower() leaving capitals as they are
KeepCaseChar(c) == c

\* str.lower() on one character (ASCII letters)
PyLowerChar(c) ==
    IF \E i \in 1 .. Len(UpperLetters) : UpperLetters[i] = c
    THEN LowerLetters[CHOOSE i \in 1 .. Len(UpperLetters) : UpperLetters[i] = c]
    ELSE c

\* text.lower()
PyLower(text) == [i \in 1 .. Len(text) |-> PyLowerChar(text[i])]

\* keyword in text
PyIn(keyword, text) ==
    \E i \in 0 .. Len(text) - Len(keyword) :
        \A k \in 1 .. Len(keyword) : text[i + k] = keyword[k]

\* category_keywords, in the dictionary's insertion order
category_keywords ==
    << [category |-> "nature", keywords |->
          << <<"t", "r", "e", "e">>,
             <<"f", "l", "o", "w", "e", "r">>,
             <<"p", "l", "a", "n", "t">>,
             <<"l", "a", "n", "d", "s", "c", "a", "p", "e">>,
             <<"m", "o", "u", "n", "t", "a", "i", "n">>,
             <<"w", "a", "t", "e", "r">>,
             <<"s", "k", "y">>,
             <<"o", "u", "t", "d", "o", "o", "r">> >>],
       [category |-> "people", keywords |->
          << <<"p", "e", "r", "s", "o", "n">>,
             <<"p", "e", "o", "p", "l", "e">>,
             <<"h", "u", "m", "a", "n">>,
             <<"f", "a", "c", "e">>,
             <<"p", "o", "r", "t", "r", "a", "i", "t">>,
             <<"g", "r", "o", "u", "p">> >>],
       [category |-> "animal", keywords |->
          << <<"d", "o", "g">>,
             <<"c", "a", "t">>,
             <<"b", "i", "r", "d">>,
             <<"a", "n", "i", "m", "a", "l">>,
             <<"p", "e", "t">>,
             <<"w", "i", "l", "d", "l", "i", "f", "e">> >>],
       [category |-> "food", keywords |->
          << <<"f", "o", "o", "d">>,
             <<"m", "e", "a", "l">>,
             <<"c", "o", "o", "k", "i", "n", "g">>,
             <<"r", "e", "s", "t", "a", "u", "r", "a", "n", "t">>,
             <<"k", "i", "t", "c", "h", "e", "n">>,
             <<"e", "a", "t", "i", "n", "g">> >>],
       [category |-> "technology", keywords |->
          << <<"c", "o", "m", "p", "u", "t", "e", "r">>,
             <<"p", "h", "o", "n", "e">>,
             <<"d", "e", "v", "i", "c", "e">>,
             <<"s", "c", "r", "e", "e", "n">>,
             <<"t", "e", "c", "h", "n", "o", "l", "o", "g", "y">>,
             <<"d", "i", "g", "i", "t", "a", "l">> >>],
       [category |-> "vehicle", keywords |->
          << <<"c", "a", "r">>,
             <<"t", "r", "u", "c", "k">>,
             <<"b", "i", "k", "e">>,
             <<"p", "l", "a", "n", "e">>,
             <<"v", "e", "h", "i", "c", "l", "e">>,
             <<"t", "r", "a", "n", "s", "p", "o", "r", "t", "a", "t", "i", "o", "n">> >>],
       [category |-> "building", keywords |->
          << <<"b", "u", "i", "l", "d", "i", "n", "g">>,
             <<"h", "o", "u", "s", "e">>,
             <<"a", "r", "c", "h", "i", "t", "e", "c", "t", "u", "r", "e">>,
             <<"s", "t", "r", "u", "c", "t", "u", "r", "e">>,
             <<"u", "r", "b", "a", "n">> >>],
       [category |-> "art", keywords |->
          << <<"p", "a", "i", "n", "t", "i", "n", "g">>,
             <<"a", "r", "t", "w", "o", "r", "k">>,
             <<"d", "r", "a", "w", "i", "n", "g">>,
             <<"a", "r", "t", "i", "s", "t", "i", "c">>,
             <<"c", "r", "e", "a", "t", "i", "v", "e">> >>],
       [category |-> "sport", keywords |->
          << <<"s", "p", "o", "r", "t">>,
             <<"g", "a", "m", "e">>,
             <<"p", "l", "a", "y", "i", "n", "g">>,
             <<"e", "x", "e", "r", "c", "i", "s", "e">>,
             <<"a", "t", "h", "l", "e", "t", "i", "c">> >>],
       [category |-> "indoor", keywords |->
          << <<"i", "n", "d", "o", "o", "r">>,
             <<"i", "n", "s", "i", "d", "e">>,
             <<"r", "o", "o", "m">>,
             <<"i", "n", "t", "e", "r", "i", "o", "r">> >>],
       [category |-> "outdoor", keywords |->
          << <<"o", "u", "t", "d", "o", "o", "r">>,
             <<"o", "u", "t", "s", "i", "d", "e">>,
             <<"e", "x", "t", "e", "r", "i", "o", "r">>,
             <<"l", "a", "n", "d", "s", "c", "a", "p", "e">> >>] >>

\* the loop over category_keywords.items(), from the k-th item on
RECURSIVE FoundCategoriesFrom(_, _)
FoundCategoriesFrom(text_lower, k) ==
    IF k > Len(category_keywords) THEN <<>>
    ELSE LET keywords == category_keywords[k].keywords
             hit == \E j \in 1 .. Len(keywords) : PyIn(keywords[j], text_lower)
         IN  (IF hit THEN <<category_keywords[k].category>> ELSE <<>>)
                 \o FoundCategoriesFrom(text_lower, k + 1)

\* found_categories[:5]
FirstCategories(found_categories) ==
    SubSeq(found_categories, 1,
           IF Len(found_categories) < MaxCategories
           THEN Len(found_categories) ELSE MaxCategories)

ExtractCategoriesFromText(text) ==
    LET found_categories == FoundCategoriesFrom(PyLower(text), 1)
    IN  IF found_categories # <<>>
        THEN FirstCategories(found_categories)
        ELSE <<"general">>

\* text.split('.'): the pieces between the periods
SplitPeriod(text) ==
    LET cuts == {i \in 1 .. Len(text) : text[i] = "."}
        cut(k) == IF k = 0 THEN 0
                  ELSE IF k > Cardinality(cuts) THEN Len(text) + 1
                  ELSE CHOOSE i \in cuts : Cardinality({j \in cuts : j <= i}) = k
    IN  [k \in 1 .. Cardinality(cuts) + 1 |-> SubSeq(text, cut(k - 1) + 1, cut(k) - 1)]

ImageAnalysisText ==
    << "I", "m", "a", "g", "e", " ", "a", "n", "a", "l", "y", "s", "i", "s" >>

Ellipsis == <<".", ".", ".">>

\* s[:100]
FirstCharacters(s) ==
    SubSeq(s, 1, IF Len(s) < CaptionLimit THEN Len(s) ELSE CaptionLimit)

ExtractCaptionFromText(text) ==
    LET sentences == SplitPeriod(text)
        meaningful == {k \in 1 .. Len(sentences) :
                          Len(Strip(sentences[k])) > MinSentenceLen}
    IN  IF meaningful = {} THEN ImageAnalysisText
        ELSE LET sentence == sentences[CHOOSE k \in meaningful :
                                           \A m \in meaningful : k <= m]
             IN  FirstCharacters(Strip(sentence))
                     \o (IF Len(sentence) > CaptionLimit THEN Ellipsis ELSE <<>>)

\* what analyze_image_with_gemini returns without an API key
MockAnalysis ==
    << "M", "o", "c", "k", " ", "a", "n", "a", "l", "y", "s", "i", "s", ":",
       " ", "T", "h", "i", "s", " ", "a", "p", "p", "e", "a", "r", "s", " ",
       "t", "o", " ", "b", "e", " ", "a", "n", " ", "i", "n", "t", "e", "r",
       "e", "s", "t", "i", "n", "g", " ", "i", "m", "a", "g", "e", ".", " ",
       "T", "h", "e", " ", "A", "I", " ", "a", "n", "a", "l", "y", "s", "i",
       "s", " ", "i", "s", " ", "c", "u", "r", "r", "e", "n", "t", "l", "y",
       " ", "u", "n", "a", "v", "a", "i", "l", "a", "b", "l", "e", " ", "b",
       "e", "c", "a", "u", "s", "e", " ", "t", "h", "e", " ", "G", "E", "M",
       "I", "N", "I", "_", "A", "P", "I", "_", "K", "E", "Y", " ", "i", "s",
       " ", "n", "o", "t", " ", "c", "o", "n", "f", "i", "g", "u", "r", "e",
       "d", "." >>

\* what summarize_with_gemini returns without an API key
MockSummary ==
    << "M", "o", "c", "k", " ", "s", "u", "m", "m", "a", "r", "y", ":", " ",
       "T", "h", "i", "s", " ", "t", "e", "x", "t", " ", "d", "i", "s", "c",
       "u", "s", "s", "e", "s", " ", "v", "a", "r", "i", "o", "u", "s", " ",
       "t", "o", "p", "i", "c", "s", ".", " ", "T", "h", "e", " ", "A", "I",
       " ", "s", "u", "m", "m", "a", "r", "i", "z", "a", "t", "i", "o", "n",
       " ", "i", "s", " ", "c", "u", "r", "r", "e", "n", "t", "l", "y", " ",
       "u", "n", "a", "v", "a", "i", "l", "a", "b", "l", "e", " ", "b", "e",
       "c", "a", "u", "s", "e", " ", "t", "h", "e", " ", "G", "E", "M", "I",
       "N", "I", "_", "A", "P", "I", "_", "K", "E", "Y", " ", "i", "s", " ",
       "n", "o", "t", " ", "c", "o", "n", "f", "i", "g", "u", "r", "e", "d",
       "." >>

VisionFailed ==
    << "WARNING_SIGN", "VARIATION_SELECTOR_16", " ", "G", "e", "m", "i",
       "n", "i", " ", "V", "i", "s", "i", "o", "n", " ", "a", "n", "a", "l",
       "y", "s", "i", "s", " ", "f", "a", "i", "l", "e", "d", ":", " " >>

SummarizationFailed ==
    << "WARNING_SIGN", "VARIATION_SELECTOR_16", " ", "G", "e", "m", "i",
       "n", "i", " ", "t", "e", "x", "t", " ", "s", "u", "m", "m", "a", "r",
       "i", "z", "a", "t", "i", "o", "n", " ", "f", "a", "i", "l", "e", "d",
       ":", " " >>

\* str(e) of the exception a failing call raises
ErrorText == <<"q", "u", "o", "t", "a">>

\* the text the text model answers a summary prompt with
SummaryReply == <<"a", " ", "t", "r", "e", "e">>

\* where a call of analyze_image may fail: the vision model's
\* generate_content, the text model's, or a statement of analyze_image's own
\* try block
AnalyzeFaults == {"none", "vision", "summary", "local"}

AnalyzeImageWithGemini(configured, fault, reply) ==
    IF ~configured THEN MockAnalysis
    ELSE IF fault = "vision" THEN VisionFailed \o ErrorText
    ELSE Strip(reply)

SummarizeWithGemini(configured, fault) ==
    IF ~configured THEN MockSummary
    ELSE IF fault = "summary" THEN SummarizationFailed \o ErrorText
    ELSE Strip(SummaryReply)

ImageAnalysisError ==
    << "I", "m", "a", "g", "e", " ", "a", "n", "a", "l", "y", "s", "i", "s",
       " ", "e", "n", "c", "o", "u", "n", "t", "e", "r", "e", "d", " ", "a",
       "n", " ", "e", "r", "r", "o", "r", ":", " " >>

AnalysisFailedText ==
    << "A", "n", "a", "l", "y", "s", "i", "s", " ", "f", "a", "i", "l", "e",
       "d" >>

ErrorDetails ==
    << "E", "r", "r", "o", "r", " ", "d", "e", "t", "a", "i", "l", "s", ":",
       " " >>

\* an exception leaving analyze_image although its body is one try block
AnalyzeRaisesUncaught(fault) == fault = "local"

\* an exception leaving analyze_image: "except Exception" returns the
\* fallback record instead
AnalyzeRaises(fault) == FALSE

\* the record analyze_image returns
AnalysisOf(configured, fault, reply) ==
    IF fault = "local"
    THEN [summary |-> ImageAnalysisError \o ErrorText,
          categories |-> <<"error", "fallback">>,
          caption |-> AnalysisFailedText,
          full_analysis |-> ErrorDetails \o ErrorText]
    ELSE LET analysis_result == AnalyzeImageWithGemini(configured, fault, reply)
         IN  [summary |-> IF Len(analysis_result) > SummaryThreshold
                          THEN SummarizeWithGemini(configured, fault)
                          ELSE analysis_result,
              categories |-> ExtractCategoriesFromText(analysis_result),
              caption |-> ExtractCaptionFromText(analysis_result),
              full_analysis |-> analysis_result]

\* n times the character c
Run(c, n) == [i \in 1 .. n |-> c]

\* words a reply is made of: keywords in capitals and in small letters, a
\* keyword inside a longer word, one keyword of two categories, no keyword
Vocabulary ==
    << <<"S", "k", "y">>,
       <<"F", "A", "C", "E">>,
       <<"d", "o", "g">>,
       <<"m", "e", "a", "l">>,
       <<"p", "h", "o", "n", "e">>,
       <<"s", "c", "a", "r">>,
       <<"l", "a", "n", "d", "s", "c", "a", "p", "e">>,
       <<"x", "y", "z">> >>

\* the chosen words of the vocabulary, from the k-th on, each followed by a
\* space
RECURSIVE WordsFrom(_, _)
WordsFrom(chosen, k) ==
    IF k > Len(Vocabulary) THEN <<>>
    ELSE (IF k \in chosen THEN Vocabulary[k] \o <<" ">> ELSE <<>>)
             \o WordsFrom(chosen, k + 1)

ClassifierReplies == {WordsFrom(chosen, 1) : chosen \in SUBSET (1 .. Len(Vocabulary))}

\* replies of one long sentence: its length around the two limits of the
\* caption, after a short sentence or at the start, padded or not, ended by a
\* period or by the end of the text
CaptionReplies ==
    {prefix \o Run("a", n) \o Run(" ", pad) \o suffix :
        prefix \in {<<>>, <<"h", "i", ".", " ">>},
        n \in {MinSentenceLen, MinSentenceLen + 1, CaptionLimit - 1,
               CaptionLimit, CaptionLimit + 1},
        pad \in {0, CaptionLimit - MinSentenceLen},
        suffix \in {<<>>, <<".", "x">>}}

\* replies at the length above which the analysis is summarised
LongReplies == {Run("a", SummaryThreshold), Run("a", SummaryThreshold + 1)}

Replies == ClassifierReplies \cup CaptionReplies \cup LongReplies

\* a call of analyze_image is about to be made: whether the API key is
\* configured, where the call fails, and what the vision model replies. Only
\* a configured call without a fault is drawn with every reply; the others
\* with the long ones, the only ones a summary is asked for
InitAnalyze ==
    \E configured \in BOOLEAN, fault \in AnalyzeFaults, reply \in Replies :
        /\ (configured /\ fault = "none") \/ reply \in LongReplies
        /\ entries = <<>>
        /\ nextId = 1
        /\ files = {}
        /\ now = 0
        /\ last = [NoCall EXCEPT !.configured = configured, !.fault = fault,
                                 !.reply = reply]

AnalyzeImage ==
    /\ last.op = "none"
    /\ UNCHANGED <<entries, nextId, files, now>>
    /\ IF last.fault # "none" /\ AnalyzeRaises(last.fault)
       THEN last' = [last EXCEPT !.op = "analyze", !.raised = TRUE]
       ELSE last' = [last EXCEPT !.op = "analyze",
                                 !.analysis = Some(AnalysisOf(last.configured, last.fault, last.reply))]

NextAnalyze == AnalyzeImage

SpecAnalyze == InitAnalyze /\ [][NextAnalyze]_vars

\* ---------------------------------------------------------------- claims
\* a call of operation op has just returned (Tick changes only the clock)
Called(op) ==
    /\ last'.op = op
    /\ <<entries, nextId, files, last>>' # <<entries, nextId, files, last>>

\* the ten field names an update may change, as the specification lists them
Whitelist ==
    {"title", "description", "image_caption", "link", "link_summary",
     "categories", "tags", "notes", "is_favorite", "is_archived"}

\* entry e exists and belongs to someone other than the supplied owner o
OwnedByAnother(tbl, e, o) ==
    /\ o # 0
    /\ e \in DOMAIN tbl
    /\ tbl[e].user_id # o

\* entry e exists and passes the ownership check for o (0: no owner supplied)
PassesOwnership(tbl, e, o) ==
    /\ e \in DOMAIN tbl
    /\ o = 0 \/ tbl[e].user_id = o

\* C1: an update that supplies an owner id other than the entry's owner
\* returns false and leaves the entries table (every field of the entry,
\* updated_at included) unchanged, whatever the patch holds.
C1_UpdateByNonOwnerRejected ==
    [][(Called("update") /\ OwnedByAnother(entries, last'.entry_id, last'.user_id))
          => (last'.ret = FALSE /\ entries' = entries)]_vars

\* C1 witness: a fault-free update with a whitelisted key, by a non-owner,
\* has returned false.
C1_Witness ==
    /\ last.op = "update"
    /\ last.fault = "none"
    /\ OwnedByAnother(entries, last.entry_id, last.user_id)
    /\ DOMAIN last.patch \cap Whitelist # {}
    /\ last.ret = FALSE

\* C2: an update whose patch holds no whitelisted key (the empty patch, or
\* only other keys) returns false and changes no row, updated_at included.
C2_UnrecognizedPatchIsNoOp ==
    [][(Called("update") /\ DOMAIN last'.patch \cap Whitelist = {})
          => (last'.ret = FALSE /\ entries' = entries)]_vars

\* C2 witness: a fault-free update of an existing entry by its owner, with a
\* non-empty patch of unrecognized keys only, has returned false.
C2_Witness ==
    /\ last.op = "update"
    /\ last.fault = "none"
    /\ PassesOwnership(entries, last.entry_id, last.user_id)
    /\ DOMAIN last.patch # {}
    /\ DOMAIN last.patch \cap Whitelist = {}
    /\ last.ret = FALSE

\* C3: an update of an existing entry that passes the ownership check, with
\* at least one whitelisted key in the patch and no persistence fault,
\* returns true, stores the patch's value for each whitelisted key, leaves
\* the column of every other key of the patch as it was, and sets updated_at
\* to the current time.
C3_UpdateAppliesWhitelistedKeys ==
    [][(/\ Called("update")
        /\ last'.fault = "none"
        /\ PassesOwnership(entries, last'.entry_id, last'.user_id)
        /\ DOMAIN last'.patch \cap Whitelist # {})
          => LET e == last'.entry_id
                 patch == last'.patch
             IN  /\ last'.ret = TRUE
                 /\ e \in DOMAIN entries'
                 /\ \A k \in DOMAIN patch \cap Whitelist : entries'[e][k] = patch[k]
                 /\ \A k \in (DOMAIN patch \ Whitelist) \cap DOMAIN entries[e] :
                        entries'[e][k] = entries[e][k]
                 /\ entries'[e].updated_at = [fmt |-> "iso", t |-> now]]_vars

\* C3 witness: an update with a whitelisted and an unrecognized key has
\* returned true after the clock moved on, and the row carries the new time.
C3_Witness ==
    /\ last.op = "update"
    /\ last.ret = TRUE
    /\ DOMAIN last.patch \cap Whitelist # {}
    /\ DOMAIN last.patch \ Whitelist # {}
    /\ now > 0
    /\ entries[last.entry_id].updated_at = [fmt |-> "iso", t |-> now]
    /\ entries[last.entry_id].is_favorite = Some(TRUE)

\* C4: a delete of an id with no entry, or one that supplies an owner id
\* other than the entry's owner, returns false and changes neither the
\* entries table nor the upload directory.
C4_DeleteOfMissingOrForeignIsNoOp ==
    [][(/\ Called("delete")
        /\ \/ last'.entry_id \notin DOMAIN entries
           \/ OwnedByAnother(entries, last'.entry_id, last'.user_id))
          => (last'.ret = FALSE /\ entries' = entries /\ files' = files)]_vars

\* C4 witness: a fault-free delete by a non-owner has returned false while
\* the entry and its stored file are both there.
C4_Witness ==
    /\ last.op = "delete"
    /\ last.fault = "none"
    /\ ~last.rm_fails
    /\ OwnedByAnother(entries, last.entry_id, last.user_id)
    /\ entries[last.entry_id].file_path # Null
    /\ entries[last.entry_id].file_path[1] \in files
    /\ last.ret = FALSE

\* C5: a delete that finds the entry (ownership check passed) and whose row
\* removal does not fault returns true and the row is gone, whether the
\* file was removed, was already missing, or its removal failed.
C5_FileRemovalNeverFailsDelete ==
    [][(/\ Called("delete")
        /\ last'.fault = "none"
        /\ PassesOwnership(entries, last'.entry_id, last'.user_id))
          => (last'.ret = TRUE /\ last'.entry_id \notin DOMAIN entries')]_vars

\* C5 witness: a delete has returned true for an entry with a stored path
\* whose file removal failed, the file being still in the directory.
C5_Witness ==
    /\ last.op = "delete"
    /\ last.ret = TRUE
    /\ last.rm_fails
    /\ last.row # Null
    /\ last.row[1].file_path # Null
    /\ last.row[1].file_path[1] \in files
    /\ last.entry_id \notin DOMAIN entries

\* C6: a create for a username that matches no user fails, adds no row and
\* writes no file; unless the connection itself faulted, the message is
\* "User not found".
C6_CreateForUnknownUserHasNoEffect ==
    [][(Called("create") /\ last'.username \notin {"alice", "bob"})
          => /\ last'.ret = FALSE
             /\ last'.fault # "connect" => last'.msg = "User not found"
             /\ entries' = entries
             /\ nextId' = nextId
             /\ files' = files]_vars

\* C6 witness: a create with a file, for an unknown username, has failed
\* with "User not found".
C6_Witness ==
    /\ last.op = "create"
    /\ last.username = "ghost"
    /\ last.file.present
    /\ last.ret = FALSE
    /\ last.msg = "User not found"

\* C7: a create is atomic with its file write: a successful create leaves
\* the new row and (when a file was given) its file, a failed create leaves
\* the table and the upload directory as they were.
C7_CreateIsAtomicWithFileWrite ==
    [][Called("create")
          => IF last'.ret
             THEN /\ nextId \in DOMAIN entries'
                  /\ last'.file.present => entries'[nextId].file_path[1] \in files'
             ELSE entries' = entries /\ files' = files]_vars

\* C8: no two distinct entries with an attached image share a stored path.
C8_OneFilePerEntry ==
    \A i, j \in DOMAIN entries :
        (i # j /\ entries[i].file_path # Null /\ entries[j].file_path # Null)
            => entries[i].file_path # entries[j].file_path

NoDot(s) == \A i \in 1 .. Len(s) : s[i] # "."

\* t is name without its extension: name itself when it has no dot, else
\* name is t, a dot, and a dot-free extension
StripsExtension(name, t) ==
    IF NoDot(name) THEN t = name
    ELSE \E k \in 1 .. Len(name) :
            /\ name[k] = "."
            /\ NoDot(SubSeq(name, k + 1, Len(name)))
            /\ t = SubSeq(name, 1, k - 1)

\* C9: a create with no title stores the file name without its extension as
\* the title, or "Untitled" when there is no file either; a non-empty title
\* is stored unchanged.
C9_TitleDefaultsToFileStem ==
    (last.op = "create" /\ last.ret)
        => LET row == entries[nextId - 1]
           IN  /\ last.title # <<>> => row.title = last.title
               /\ (last.title = <<>> /\ last.file.present)
                      => StripsExtension(last.file.name, row.title)
               /\ (last.title = <<>> /\ ~last.file.present)
                      => row.title = <<"U", "n", "t", "i", "t", "l", "e", "d">>

\* C9 witness: a create with no title and a file name with two dots has
\* stored a title that is shorter than the name and still holds a dot.
C9_Witness ==
    /\ last.op = "create"
    /\ last.ret
    /\ last.title = <<>>
    /\ last.file.present
    /\ entries[nextId - 1].title # last.file.name
    /\ ~NoDot(entries[nextId - 1].title)

\* the first k of items, joined by sep
RECURSIVE JoinedUpTo(_, _, _)
JoinedUpTo(items, sep, k) ==
    IF k = 0 THEN <<>>
    ELSE IF k = 1 THEN items[1]
    ELSE JoinedUpTo(items, sep, k - 1) \o sep \o items[k]

\* what a read must return for a categories/tags argument: a list joined
\* by sep, text unchanged
StoredAs(arg, sep) ==
    IF arg.kind = "list" THEN JoinedUpTo(arg.items, sep, Len(arg.items))
    ELSE arg.text

\* a successful create is directly followed by a read of the new entry by
\* its id, with no owner id or the owner's
ReadBackAfterCreate ==
    /\ last.op = "create"
    /\ last.ret
    /\ Called("get")
    /\ last'.fault = "none"
    /\ last'.entry_id = nextId - 1
    /\ last'.user_id \in {0, RegisteredUsers[last.username]}

\* C10 as claimed: the read returns categories and tags equal to the list
\* joined by "," (text unchanged).
C10_ReadBackCommaJoined ==
    [][ReadBackAfterCreate
          => /\ last'.row # Null
             /\ last'.row[1].categories = StoredAs(last.categories, <<",">>)
             /\ last'.row[1].tags = StoredAs(last.tags, <<",">>)]_vars

\* C10 amended: the read returns categories and tags equal to the list
\* joined by ", " (a comma and a space); text is returned unchanged.
C10_ReadBackCommaSpaceJoined ==
    [][ReadBackAfterCreate
          => /\ last'.row # Null
             /\ last'.row[1].categories = StoredAs(last.categories, <<",", " ">>)
             /\ last'.row[1].tags = StoredAs(last.tags, <<",", " ">>)]_vars

\* C10 witness: a read has returned an entry created from two-label lists.
C10_Witness ==
    /\ last.op = "get"
    /\ last.row # Null
    /\ last.row[1].categories = <<"x", ",", " ", "y", "z">>
    /\ last.row[1].tags = <<"p", ",", " ", "q">>

\* C11: no store operation lets a persistence fault reach its caller: every
\* call returns a result, none ends with the fault raised.
C11_NoRawFault == ~last.raised

\* C12: a fault-free read by id returns the entry when it exists and passes
\* the ownership check, and not-found otherwise; an entry it returns is never
\* owned by a user other than the supplied owner id.
C12_GetByIdRespectsOwnership ==
    (last.op = "get" /\ last.fault = "none")
        => /\ IF PassesOwnership(entries, last.entry_id, last.user_id)
              THEN last.row = Some(entries[last.entry_id])
              ELSE last.row = Null
           /\ (last.row # Null /\ last.user_id # 0)
                  => last.row[1].user_id = last.user_id

\* C12 witness: a read of an existing entry with another user's owner id
\* has returned not-found.
C12_Witness ==
    /\ last.op = "get"
    /\ last.fault = "none"
    /\ OwnedByAnother(entries, last.entry_id, last.user_id)
    /\ last.row = Null

\* the call names one owner: by user id alone, or by the username of a
\* registered user (with no user id, or that user's)
NamesOneOwner(call) ==
    \/ call.username = "" /\ call.user_id # 0
    \/ /\ call.username \in {"alice", "bob"}
       /\ call.user_id \in {0, RegisteredUsers[call.username]}

\* the id of the owner the call names
NamedOwner(call) ==
    IF call.username = "" THEN call.user_id ELSE RegisteredUsers[call.username]

\* rows runs from the most recent upload to the oldest
NewestFirst(rows) ==
    \A k \in 1 .. Len(rows) - 1 : rows[k].uploaded_at.t >= rows[k + 1].uploaded_at.t

\* the first n of rows, or all of them when there are fewer
FirstOf(rows, n) == SubSeq(rows, 1, IF n < Len(rows) THEN n ELSE Len(rows))

\* C13: a fault-free listing for an owner returns only that owner's entries,
\* most recently uploaded first, and with a limit n exactly the first
\* min(n, total) entries of the listing without a limit.
C13_ListOwnedNewestFirstCapped ==
    (last.op = "list" /\ last.fault = "none" /\ NamesOneOwner(last))
        => /\ \A k \in 1 .. Len(last.rows) : last.rows[k].user_id = NamedOwner(last)
           /\ NewestFirst(last.rows)
           /\ last.limit # Null
                  => last.rows = FirstOf(ListRows(entries, last.username, last.user_id, Null),
                                         last.limit[1])

\* the entry is among the returned rows
Returned(rows, entry) == \E k \in 1 .. Len(rows) : rows[k] = entry

\* C14: a fault-free search with exclude_archived returns no entry whose
\* is_archived flag is true, and returns every entry the same search without
\* exclude_archived selects whose flag is false or NULL.
C14_ExcludeArchivedKeepsUnset ==
    (last.op = "search" /\ last.fault = "none" /\ last.exclude_archived)
        => /\ \A k \in 1 .. Len(last.rows) : last.rows[k].is_archived # Some(TRUE)
           /\ \A i \in DOMAIN entries :
                 (/\ SearchWhere(entries[i], last.username, last.search_query,
                                 last.category, last.tag, last.favorites_only, FALSE)
                  /\ entries[i].is_archived \in {Some(FALSE), Null})
                     => Returned(last.rows, entries[i])

\* C14 witness: a search with exclude_archived has returned an entry whose
\* flag is NULL and left out an archived entry of the same user.
C14_Witness ==
    /\ last.op = "search"
    /\ last.exclude_archived
    /\ \E k \in 1 .. Len(last.rows) : last.rows[k].is_archived = Null
    /\ \E i \in DOMAIN entries :
          /\ entries[i].username = last.username
          /\ entries[i].is_archived = Some(TRUE)
          /\ ~Returned(last.rows, entries[i])

\* needle occurs in text at position start; with fold, letters are compared
\* without regard to case
OccursAt(needle, text, start, fold) ==
    /\ start + Len(needle) - 1 <= Len(text)
    /\ \A k \in 1 .. Len(needle) :
          IF fold THEN Lower(text[start + k - 1]) = Lower(needle[k])
          ELSE text[start + k - 1] = needle[k]

IsSubstring(needle, text) ==
    \E start \in 1 .. Len(text) + 1 : OccursAt(needle, text, start, FALSE)

IsSubstringIgnoringCase(needle, text) ==
    \E start \in 1 .. Len(text) + 1 : OccursAt(needle, text, start, TRUE)

\* only the named filters of the search are supplied
OnlyFilters(call, supplied) ==
    /\ call.op = "search"
    /\ call.fault = "none"
    /\ "query" \in supplied <=> call.search_query # <<>>
    /\ "category" \in supplied <=> call.category # <<>>
    /\ "tag" \in supplied <=> call.tag # <<>>
    /\ ~call.favorites_only
    /\ ~call.exclude_archived

\* the ids of the returned rows
ReturnedIds(rows) == {rows[k].id : k \in 1 .. Len(rows)}

\* C15: a search with only a query returns exactly the user's entries that
\* hold the query, compared without regard to case, as a substring of the
\* title, description, caption, file name, tags or notes; the categories do
\* not count.
C15_QueryIsSubstringOfSixFields ==
    OnlyFilters(last, {"query"})
        => ReturnedIds(last.rows)
              = {i \in DOMAIN entries :
                    /\ entries[i].username = last.username
                    /\ \E col \in {"title", "description", "image_caption",
                                   "filename", "tags", "notes"} :
                          IsSubstringIgnoringCase(last.search_query, entries[i][col])}

\* C16: a search with only a category (resp. only a tag) returns exactly
\* the user's entries whose stored categories (resp. tags) text holds it as
\* a substring.
C16_LabelFilterIsSubstring ==
    /\ OnlyFilters(last, {"category"})
          => ReturnedIds(last.rows)
                = {i \in DOMAIN entries :
                      /\ entries[i].username = last.username
                      /\ IsSubstring(last.category, entries[i].categories)}
    /\ OnlyFilters(last, {"tag"})
          => ReturnedIds(last.rows)
                = {i \in DOMAIN entries :
                      /\ entries[i].username = last.username
                      /\ IsSubstring(last.tag, entries[i].tags)}

\* the elements of a sequence
Members(seq) == {seq[k] : k \in 1 .. Len(seq)}

\* the ids of the user's entries
OwnedIds(tbl, username) == {i \in DOMAIN tbl : tbl[i].username = username}

\* the ids each filter of the call selects when it is the only filter
\* supplied; every entry of the user for a filter that is not supplied
QueryAlone(tbl, call) ==
    IF call.search_query = <<>> THEN OwnedIds(tbl, call.username)
    ELSE Members(SearchIds(tbl, call.username, call.search_query, <<>>, <<>>, FALSE, FALSE))

CategoryAlone(tbl, call) ==
    IF call.category = <<>> THEN OwnedIds(tbl, call.username)
    ELSE Members(SearchIds(tbl, call.username, <<>>, call.category, <<>>, FALSE, FALSE))

TagAlone(tbl, call) ==
    IF call.tag = <<>> THEN OwnedIds(tbl, call.username)
    ELSE Members(SearchIds(tbl, call.username, <<>>, <<>>, call.tag, FALSE, FALSE))

FavoritesAlone(tbl, call) ==
    IF ~call.favorites_only THEN OwnedIds(tbl, call.username)
    ELSE Members(SearchIds(tbl, call.username, <<>>, <<>>, <<>>, TRUE, FALSE))

ArchivedAlone(tbl, call) ==
    IF ~call.exclude_archived THEN OwnedIds(tbl, call.username)
    ELSE Members(SearchIds(tbl, call.username, <<>>, <<>>, <<>>, FALSE, TRUE))

\* C17: a fault-free search with favorites_only returns only entries whose
\* is_favorite flag is true, and for every combination of filters the
\* entries returned are exactly the user's entries that each supplied filter
\* returns when applied alone.
C17_FiltersCombineConjunctively ==
    (last.op = "search" /\ last.fault = "none")
        => /\ last.favorites_only
                  => \A k \in 1 .. Len(last.rows) : last.rows[k].is_favorite = Some(TRUE)
           /\ ReturnedIds(last.rows)
                 = OwnedIds(entries, last.username)
                      \cap QueryAlone(entries, last) \cap CategoryAlone(entries, last)
                      \cap TagAlone(entries, last) \cap FavoritesAlone(entries, last)
                      \cap ArchivedAlone(entries, last)

\* C17 witness: a search with a query and favorites_only has returned an
\* entry and left out one that the query alone selects.
C17_Witness ==
    /\ last.op = "search"
    /\ last.search_query # <<>>
    /\ last.favorites_only
    /\ last.rows # <<>>
    /\ QueryAlone(entries, last) \ ReturnedIds(last.rows) # {}

\* the search supplies no filter
NoFilter(call) ==
    /\ call.op = "search"
    /\ call.search_query = <<>>
    /\ call.category = <<>>
    /\ call.tag = <<>>
    /\ ~call.favorites_only
    /\ ~call.exclude_archived

\* C18: a fault-free search with no filter returns the same entries, in the
\* same order, as the listing of that user's entries without a limit.
C18_EmptySearchIsListing ==
    (NoFilter(last) /\ last.fault = "none")
        => last.rows = ListRows(entries, last.username, 0, Null)

\* C18 witness: a search with no filter has returned two entries of the
\* user, the later upload first.
C18_Witness ==
    /\ NoFilter(last)
    /\ last.fault = "none"
    /\ Len(last.rows) >= 2
    /\ last.rows[1].id > last.rows[2].id

\* C19: a search during which the persistence layer faults returns the empty
\* sequence; the fault does not reach the caller.
C19_SearchFaultGivesEmptyResult ==
    (last.op = "search" /\ last.fault # "none")
        => (last.rows = <<>> /\ ~last.raised)

\* C19 witness: a search that faulted has returned nothing although the
\* user has entries the search selects.
C19_Witness ==
    /\ last.op = "search"
    /\ last.fault = "execute"
    /\ last.rows = <<>>
    /\ ~last.raised
    /\ SearchIds(entries, last.username, last.search_query, last.category,
                 last.tag, last.favorites_only, last.exclude_archived) # <<>>

\* positions a .. b of text f are a comma-separated segment: a longest run
\* without a comma (empty when b = a - 1)
SegmentAt(f, a, b) ==
    /\ a <= b + 1
    /\ a = 1 \/ f[a - 1] = ","
    /\ b = Len(f) \/ f[b + 1] = ","
    /\ \A k \in a .. b : f[k] # ","

\* positions c .. d are segment a .. b of f without the blanks at its ends
TrimmedAt(f, a, b, c, d) ==
    /\ a <= c
    /\ d <= b
    /\ c <= d + 1
    /\ \A k \in a .. c - 1 : f[k] = " "
    /\ \A k \in d + 1 .. b : f[k] = " "
    /\ c <= d => (f[c] # " " /\ f[d] # " ")

\* the whitespace-trimmed comma-separated segments of text f
TrimmedSegments(f) ==
    UNION {{SubSeq(f, q[1], q[2]) :
               q \in {r \in (1 .. Len(f) + 1) \X (0 .. Len(f)) :
                         TrimmedAt(f, p[1], p[2], r[1], r[2])}} :
              p \in {r \in (1 .. Len(f) + 1) \X (0 .. Len(f)) :
                        SegmentAt(f, r[1], r[2])}}

\* s comes before t in lexicographic order of the code points
LexBefore(s, t) ==
    \E k \in 1 .. Len(t) :
        /\ k <= Len(s) + 1
        /\ \A j \in 1 .. k - 1 : s[j] = t[j]
        /\ k = Len(s) + 1 \/ Ord(s[k]) < Ord(t[k])

C21_OwnerIdAndUsernameAgree ==
    \A i \in DOMAIN entries :
        /\ entries[i].username \in DOMAIN RegisteredUsers
        /\ RegisteredUsers[entries[i].username] = entries[i].user_id
        /\ \A u \in DOMAIN RegisteredUsers :
              /\ i \in ListWhere(entries, u, 0)
                    <=> UpdateSelect(entries, i, RegisteredUsers[u]) # {}
              /\ i \in ListWhere(entries, u, 0)
                    <=> DeleteSelect(entries, i, RegisteredUsers[u]) # {}

\* C21 witness: an update whose patch names another owner id and username
\* has succeeded on alice's entry, next to an entry of bob.
C21_Witness ==
    /\ last.op = "update"
    /\ last.ret
    /\ "user_id" \in DOMAIN last.patch
    /\ entries[last.entry_id].username = "alice"
    /\ entries[last.entry_id].is_favorite = Some(TRUE)
    /\ \E i \in DOMAIN entries : entries[i].username = "bob"

\* C26: a delete that returns false, whatever made it fail, changes neither
\* the entries table nor the upload directory: the row is still there and
\* so is its file.
C26_FailedDeleteChangesNothing ==
    [][(Called("delete") /\ ~last'.ret)
          => (entries' = entries /\ files' = files)]_vars

\* C27: a successful update changes, in the entry it names, only the
\* whitelisted fields of its patch and updated_at; every other column of
\* that entry (id, owner, file, created and uploaded times, and whitelisted
\* fields the patch does not name), every other entry and the upload
\* directory are unchanged.
C27_UpdateFrame ==
    [][(Called("update") /\ last'.ret)
          => LET e == last'.entry_id
                 named == (DOMAIN last'.patch \cap Whitelist) \cup {"updated_at"}
             IN  /\ DOMAIN entries' = DOMAIN entries
                 /\ \A i \in DOMAIN entries \ {e} : entries'[i] = entries[i]
                 /\ \A f \in DOMAIN entries[e] \ named : entries'[e][f] = entries[e][f]
                 /\ files' = files
                 /\ nextId' = nextId]_vars

\* C27 witness: an update that archives an entry has succeeded on an entry
\* made a favorite before, and the entry is now both.
C27_Witness ==
    /\ last.op = "update"
    /\ last.ret
    /\ "is_archived" \in DOMAIN last.patch
    /\ "is_favorite" \notin DOMAIN last.patch
    /\ entries[last.entry_id].is_favorite = Some(TRUE)
    /\ entries[last.entry_id].is_archived = Some(TRUE)
    /\ Cardinality(DOMAIN entries) > 1

\* a is b with some elements left out
RECURSIVE IsSubsequence(_, _)
IsSubsequence(a, b) ==
    IF a = <<>> THEN TRUE
    ELSE IF b = <<>> THEN FALSE
    ELSE IF Head(a) = Head(b) THEN IsSubsequence(Tail(a), Tail(b))
    ELSE IsSubsequence(a, Tail(b))

\* C30: whatever extra keyword arguments a fault-free search is given, it
\* returns what the same search returns without them, and its result is a
\* subsequence of the unlimited listing of that username: only that user's
\* entries, most recent upload first.
C30_SearchIgnoresExtraKeywords ==
    (last.op = "search" /\ last.fault = "none")
        => /\ last.rows = FetchAll(entries, SearchIds(entries, last.username,
                                       last.search_query, last.category, last.tag,
                                       last.favorites_only, last.exclude_archived))
           /\ IsSubsequence(last.rows, ListRows(entries, last.username, 0, Null))

\* C30 witness: a search asked to sort by title, ascending, has returned two
\* entries with the later upload first.
C30_Witness ==
    /\ last.op = "search"
    /\ last.kwargs = [sort_by |-> "title", sort_order |-> "asc"]
    /\ Len(last.rows) = 2
    /\ last.rows[1].uploaded_at.t > last.rows[2].uploaded_at.t

\* C22: get_entry_field returns None when the name is not in its table or
\* the record has no element at the mapped position, and otherwise the
\* record's element at that position; a short record never makes it raise.
C22_GetIsNullOrElementAtPosition ==
    last.op = "get_entry_field"
        => LET field_mapping == FieldMapping(last.variant)
           IN  /\ ~last.raised
               /\ IF last.field \notin DOMAIN field_mapping
                  THEN last.result = Null
                  ELSE IF Len(last.entry) <= field_mapping[last.field]
                       THEN last.result = Null
                       ELSE last.result = Some(last.entry[field_mapping[last.field] + 1])

\* C22 witness: the main UI asked for is_archived of a record of exactly 19
\* elements and got its last element.
C22_Witness ==
    /\ last.op = "get_entry_field"
    /\ last.variant = "main"
    /\ last.field = "is_archived"
    /\ Len(last.entry) = 19
    /\ last.result = Some(last.entry[19])

\* C28: in the main UI, get_entry_field on a full record a read returned
\* gives, for each of the 19 names of its table, the entry's stored value of
\* the column of that name.
C28_MainTableMatchesSelectOrder ==
    (/\ last.op = "get_entry_field"
     /\ last.variant = "main"
     /\ Len(last.entry) = Len(SelectColumns)
     /\ last.field \in DOMAIN MainFieldMapping)
        => last.result = Some(last.row[1][last.field])

\* C28 witness: the main UI asked for the tags of an entry whose stored
\* tags and categories differ, and got the stored tags.
C28_Witness ==
    /\ last.op = "get_entry_field"
    /\ last.variant = "main"
    /\ Len(last.entry) = Len(SelectColumns)
    /\ last.field = "tags"
    /\ last.row[1].tags # last.row[1].categories
    /\ last.result = Some(last.row[1].tags)

\* C29 (as stated): the entries app.py lists as favorites are exactly the
\* user's entries whose stored is_favorite flag is true.
C29_AppFavoritesAreStoredFavorites ==
    (last.op = "favorites" /\ last.variant = "app")
        => last.rows = SelectSeq(ListRows(entries, last.username, 0, Null), IsFavorite)

\* C23: analyze_image never raises, whether the remote call succeeds, is
\* unconfigured or fails: it returns a record of the four fields summary,
\* categories, caption and full_analysis with one to five categories.
C23_AnalyzeAlwaysReturnsRecord ==
    last.op = "analyze"
        => /\ ~last.raised
           /\ last.analysis # Null
           /\ DOMAIN last.analysis[1] = {"summary", "categories", "caption", "full_analysis"}
           /\ Len(last.analysis[1].categories) \in 1 .. 5

\* C23 witness: a statement of analyze_image's own body failed and the
\* fallback record was returned.
C23_Witness ==
    /\ last.op = "analyze"
    /\ last.fault = "local"
    /\ ~last.raised
    /\ last.analysis # Null
    /\ last.analysis[1].categories = <<"error", "fallback">>

\* a letter in capitals as the small letter, any other character as it is
FoldCase(c) ==
    IF \E i \in 1 .. Len(UpperLetters) : c = UpperLetters[i]
    THEN LowerLetters[CHOOSE i \in 1 .. Len(UpperLetters) : c = UpperLetters[i]]
    ELSE c

Folded(text) == [i \in 1 .. Len(text) |-> FoldCase(text[i])]

\* the keyword occurs in the text as a case-insensitive substring: it
\* occurs in the folded text once its own case is folded
OccursFolded(keyword, folded) ==
    \E i \in 0 .. Len(folded) - Len(keyword) :
        \A k \in 1 .. Len(keyword) : folded[i + k] = FoldCase(keyword[k])

\* the dictionary positions of the categories a keyword of which occurs
TriggeredFolded(folded) ==
    {k \in 1 .. Len(category_keywords) :
        \E j \in 1 .. Len(category_keywords[k].keywords) :
            OccursFolded(category_keywords[k].keywords[j], folded)}

Triggered(text) == TriggeredFolded(Folded(text))

\* the call went through the classifier (not through the fallback record)
Classified == last.op = "analyze" /\ last.analysis # Null /\ last.fault # "local"

\* found is the categories at the positions triggered, in dictionary order,
\* the first five at most, or "general" alone when there is none
FirstFiveOf(found, triggered) ==
    IF triggered = {}
    THEN found = <<"general">>
    ELSE /\ Len(found) = IF Cardinality(triggered) < 5
                         THEN Cardinality(triggered) ELSE 5
         /\ \A n \in 1 .. Len(found) :
                \E k \in triggered :
                    /\ found[n] = category_keywords[k].category
                    /\ Cardinality({m \in triggered : m <= k}) = n

\* C24: the classifier returns the categories a keyword of which occurs in
\* the analysis text as a case-insensitive substring, in dictionary order,
\* the first five of them at most, and the single category "general" when
\* there is none.
C24_ClassifierByKeywordSubstring ==
    Classified
        => FirstFiveOf(last.analysis[1].categories,
                       Triggered(last.analysis[1].full_analysis))

\* C24 witness: seven categories are triggered, one of them by a keyword in
\* capitals, and the first five are returned.
C24_Witness ==
    /\ Classified
    /\ Cardinality(Triggered(last.analysis[1].full_analysis)) = 7
    /\ last.analysis[1].categories = <<"nature", "people", "animal", "food", "technology">>

\* C25 (as stated): the caption analyze_image returns is at most 100
\* characters long.
C25_CaptionAtMostHundred ==
    (last.op = "analyze" /\ last.analysis # Null)
        => Len(last.analysis[1].caption) <= 100

====
